---- MODULE Spec2Model ----
(***************************************************************************)
(* ZKGroupMembership (lib/ZKGroupMembership.js): a group-membership        *)
(* manager over a ZooKeeper client.  The model holds the manager's fields, *)
(* every promise the manager has returned, the timers it has started, the  *)
(* events it has emitted, and the session with the coordination service:   *)
(* the requests sent and not yet served, the responses and watch           *)
(* notifications on their way back (one ordered stream, as a ZooKeeper     *)
(* session delivers them), the one-shot child watch and the tree.          *)
(*                                                                         *)
(* Strings the code inspects (member ids, paths) are sequences of          *)
(* one-character strings, so that includes('/') and join('/') are          *)
(* computed.  One step of the model is one turn of the event loop: a call  *)
(* by the user of the manager, one client callback or one timer, together  *)
(* with every promise reaction it triggers.                                *)
(*                                                                         *)
(* Spec is the manager with all its operations and monitoring.  The other  *)
(* specifications take the same actions in smaller groups: OpsSpec (the    *)
(* operations), MonitorSpec (monitoring and reads), ConnSpec (monitoring   *)
(* and the connection's state), FrameSpec (everything the user can call),  *)
(* PathSpec (getMemberPath), ZeroSpec (a timeout of 0), and ClusterSpec    *)
(* (ZKCluster, the older class of the repository).                         *)
(***************************************************************************)
EXTENDS Naturals, Sequences, FiniteSets

\* ------------------------------------------------------------------ bounds
\* calls of setup/getMembers/registerMember/getMemberData by the user
MaxCalls == 2
\* calls by the user of a monitored group (MonitorSpec, FrameSpec)
MaxReads == 1
\* calls of startMonitor by the user
MaxStarts == 2
\* joins and leaves of members of other sessions
MaxExt == 2
\* requests the connection fails
MaxLoss == 1
\* connection-state notifications of the client
MaxNotes == 2
\* calls of getMemberPath by the user, and the length of the string ids given
MaxPaths == 2
MaxIdLen == 2

\* ------------------------------------------------------------- the inputs
groupPath == <<"/", "g">>

\* member ids given by the user: a string, a number or undefined
StrId(s) == [t |-> "string", s |-> s]
NumId(n) == [t |-> "number", n |-> n]
UndefId == [t |-> "undefined"]
Ids == {StrId(<<"a">>), StrId(<<"a", "/", "b">>), UndefId}

\* the ids given to getMemberPath: every string of 'a' and '/' up to
\* MaxIdLen characters (the empty one too), numbers of one and two digits,
\* and undefined
PathIds ==
    {StrId(s) : s \in UNION {[1..k -> {"a", "/"}] : k \in 0..MaxIdLen}}
      \cup {NumId(0), NumId(7), NumId(12)} \cup {UndefId}

\* names under which other sessions join the group
ExtNames == {<<"a">>}

\* the data documents given by the user, by their weight (registerMember
\* also stamps registrationTimeUTC on the document; the stamp is not read back
\* by any operation and is left out)
Datas == {"w1"}
ExtData == "ext"
NoData == "none"

\* ------------------------------------------------------------ JS helpers
Digit(n) == CASE n = 0 -> "0" [] n = 1 -> "1" [] n = 2 -> "2" [] n = 3 -> "3"
              [] n = 4 -> "4" [] n = 5 -> "5" [] n = 6 -> "6" [] n = 7 -> "7"
              [] n = 8 -> "8" [] OTHER -> "9"

\* String(n) of a number below 100
NumToString(n) == IF n < 10 THEN <<Digit(n)>> ELSE <<Digit(n \div 10), Digit(n % 10)>>

\* uuid(): the k-th identifier generated; it holds no '/'
uuid(k) == <<"u">> \o NumToString(k)

\* id.includes('/')
includes(s, c) == \E i \in 1..Len(s) : s[i] = c

\* [a, b].join('/')
join(a, b) == a \o <<"/">> \o b

Undefined == <<>>

\* id = typeof id !== 'string' ? String(id) : id
ToStr(id) ==
    CASE id.t = "string" -> id.s
      [] id.t = "number" -> NumToString(id.n)
      [] OTHER -> <<"u", "n", "d", "e", "f", "i", "n", "e", "d">>

getMemberPathUnchecked(id) == join(groupPath, ToStr(id))
getMemberPathStartsWith(id) ==
    LET s == ToStr(id)
    IN  IF s # <<>> /\ s[1] = "/" THEN Undefined ELSE join(groupPath, s)
getMemberPath(id) ==
    LET s == ToStr(id)
    IN  IF includes(s, "/") THEN Undefined ELSE join(groupPath, s)

\* new Buffer(JSON.stringify(data)) and JSON.parse(buffer.toString())
Stringify(d) == <<"{", d, "}">>
Parse(b) == b[2]

\* ----------------------------------------------------------------- errors
Err(kind) == [kind |-> kind, cause |-> "none"]
NoErr == Err("none")
TimeoutErr == Err("Timeout")
IllegalIdErr == Err("Illegal member ID")
ClientErrKinds == {"NO_NODE", "NODE_EXISTS", "CONNECTION_LOSS"}

\* --------------------------------------------------------------- promises
Pending == [st |-> "pending", err |-> NoErr, members |-> {}, data |-> NoData]
Resolved(members, data) ==
    [st |-> "resolved", err |-> NoErr, members |-> members, data |-> data]
Rejected(e) == [st |-> "rejected", err |-> e, members |-> {}, data |-> NoData]


\* the values a client callback carries after err
Value(children, buffer) == [children |-> children, buffer |-> buffer]
NoValue == Value({}, <<>>)

\* resolverAsCallback: the node-style callback (err, value) settles the promise
\* of the client call, with err itself when the client gives one
resolverWrapsErr(err, value) ==
    IF err # NoErr
      THEN [st |-> "rejected", err |-> [kind |-> "Failed", cause |-> err.kind],
            value |-> NoValue]
      ELSE [st |-> "resolved", err |-> NoErr, value |-> value]
resolverAsCallback(err, value) ==
    IF err # NoErr THEN [st |-> "rejected", err |-> err, value |-> NoValue]
                   ELSE [st |-> "resolved", err |-> NoErr, value |-> value]

\* Promise.race([promise, delay(timeout).then(reject Timeout)]): the first
\* settlement stands, whatever settles later is dropped
raceLastWins(cur, outcome) == outcome
raceValueWins(cur, outcome) ==
    IF cur.st = "pending" \/ outcome.st = "resolved" THEN outcome ELSE cur
race(cur, outcome) == IF cur.st = "pending" THEN outcome ELSE cur

\* withTimeout: no timer at all when the timeout is undefined
withTimeoutAlways(t) == "armed"
withTimeoutFalsy(t) == IF t \in {"undefined", "zero"} THEN "none" ELSE "armed"
withTimeout(t) == IF t = "undefined" THEN "none" ELSE "armed"

\* ------------------------------------------------------------------ state
VARIABLES
    timeout,         \* this._timeout: "undefined" or "ms"
    setupTimeout,    \* this._setupTimeout: "undefined" or "ms"
    listener,        \* this._membersChangedListener: "null" or "relay"
    stateListeners,  \* number of 'state' listeners registered on the client
    ops,             \* every operation started, in the order of the calls
    events,          \* the events emitted by the manager, in order
    reqQ,            \* requests sent to the service and not yet served
    respQ,           \* responses and notifications not yet delivered
    watchArmed,      \* the relay is a child watcher of the group path
    tree,            \* the service's tree: path -> stored payload
    starts,          \* calls of startMonitor so far
    ext,             \* joins and leaves of other sessions so far
    losses,          \* requests failed by the connection so far
    changes,         \* changes of the group's children since monitoring began
    conn,            \* the client's 'state' notifications: how many, and the last
    paths            \* the calls of getMemberPath so far: the id and the result

vars == <<timeout, setupTimeout, listener, stateListeners, ops, events, reqQ,
          respQ, watchArmed, tree, starts, ext, losses, changes, conn, paths>>

config == <<timeout, setupTimeout>>
manager == <<timeout, setupTimeout, listener, stateListeners>>
service == <<reqQ, respQ, watchArmed, tree>>

OpIds == 1..Len(ops)
Count(S) == Cardinality(S)
Calls == Count({i \in OpIds : ops[i].by = "caller"})
Uuids == Count({i \in OpIds : ops[i].idIn = UndefId})

\* ------------------------------------------------------------- the tree
NoBuffer == <<>>
EmptyTree == [p \in {} |-> NoBuffer]
Put(t, path, d) == [p \in DOMAIN t \cup {path} |-> IF p = path THEN d ELSE t[p]]
Del(t, path) == [p \in DOMAIN t \ {path} |-> t[p]]
Exists(t, path) == path \in DOMAIN t

IsChildPath(p) ==
    /\ Len(p) > Len(groupPath) + 1
    /\ SubSeq(p, 1, Len(groupPath)) = groupPath
    /\ p[Len(groupPath) + 1] = "/"
    /\ ~includes(SubSeq(p, Len(groupPath) + 2, Len(p)), "/")
ChildName(p) == SubSeq(p, Len(groupPath) + 2, Len(p))
Children(t) == {ChildName(p) : p \in {q \in DOMAIN t : IsChildPath(q)}}

\* ------------------------------------------------- the session's messages
\* each call has a resolver of its own, so an answer settles the call it answers
ResponseToFirst(i, err, children, buffer) ==
    [t |-> "resp", op |-> 1, err |-> err, children |-> children, buffer |-> buffer]
Response(i, err, children, buffer) ==
    [t |-> "resp", op |-> i, err |-> err, children |-> children, buffer |-> buffer]
WatchEvent ==
    [t |-> "watch", op |-> 0, err |-> NoErr, children |-> {}, buffer |-> NoBuffer]

\* a change of the group's children fires the one-shot watch, if one is armed
Notify(q, armed) == IF armed THEN Append(q, WatchEvent) ELSE q

\* --------------------------------------------------------- the operations
NoId == [t |-> "none"]

\* timedPromiseByCallback(executor, timeout): the executor runs at once (the
\* request is sent), and the promise races the timer withTimeout starts
timedPromiseByCallback(kind, by, idIn, name, path, data, watcher, t) ==
    [kind |-> kind, by |-> by, idIn |-> idIn, name |-> name, path |-> path,
     data |-> data, watcher |-> watcher, sent |-> TRUE, timer |-> withTimeout(t),
     inner |-> "pending", res |-> Pending]

\* return Promise.reject(new Error('Illegal member ID')): no executor, no timer
IllegalMemberId(kind, idIn, name, data) ==
    [kind |-> kind, by |-> "caller", idIn |-> idIn, name |-> name, path |-> Undefined,
     data |-> data, watcher |-> "null", sent |-> FALSE, timer |-> "none",
     inner |-> "unused", res |-> Rejected(IllegalIdErr)]

\* the watcher getMembers hands to client.getChildren
membersWatcherNone(l) == "null"
membersWatcherAlways(l) == "relay"
membersWatcher(l) == l

\* getMembers(), called by `by` (the user: "caller"; the relay, run by
\* startMonitor: "start", or by a watch notification: "watch") while
\* this._membersChangedListener is l
getMembers(by, l) ==
    timedPromiseByCallback("getMembers", by, NoId, <<>>, groupPath, NoData,
                           membersWatcher(l), timeout)

\* the request of the operation goes out on the session
send(q, i) == Append(q, i)

Start(o) ==
    /\ ops' = Append(ops, o)
    /\ reqQ' = IF o.sent THEN send(reqQ, Len(ops) + 1) ELSE reqQ

CallSetup ==
    /\ Start(timedPromiseByCallback("setup", "caller", NoId, <<>>, groupPath,
                                    NoData, "null", setupTimeout))
    /\ UNCHANGED <<manager, events, respQ, watchArmed, tree, starts, ext, losses, changes, conn, paths>>

CallGetMembers ==
    /\ Start(getMembers("caller", listener))
    /\ UNCHANGED <<manager, events, respQ, watchArmed, tree, starts, ext, losses, changes, conn, paths>>

\* if (!this._membersChangedListener)
monitoringNever(l) == FALSE
monitoring(l) == l # "null"

CallStartMonitor ==
    /\ starts < MaxStarts
    /\ starts' = starts + 1
    /\ IF ~monitoring(listener)
         THEN /\ listener' = "relay"
              /\ Start(getMembers("start", "relay"))
              /\ stateListeners' = stateListeners + 1
         ELSE UNCHANGED <<listener, ops, reqQ, stateListeners>>
    /\ UNCHANGED <<config, events, respQ, watchArmed, tree, ext, losses, changes, conn, paths>>

\* if (typeof id === 'undefined') id = uuid()
EffectiveId(id) == IF id = UndefId THEN StrId(uuid(Uuids + 1)) ELSE id

CallRegisterMember(id, data) ==
    /\ LET eid == EffectiveId(id)
           path == getMemberPath(eid)
       IN  IF path = Undefined
             THEN Start(IllegalMemberId("registerMember", id, ToStr(eid), data))
             ELSE Start(timedPromiseByCallback("registerMember", "caller", id,
                                               ToStr(eid), path, data, "null", timeout))
    /\ UNCHANGED <<manager, events, respQ, watchArmed, tree, starts, ext, losses, changes, conn, paths>>

CallGetMemberData(id) ==
    /\ id # UndefId
    /\ LET path == getMemberPath(id)
       IN  IF path = Undefined
             THEN Start(IllegalMemberId("getMemberData", id, ToStr(id), NoData))
             ELSE Start(timedPromiseByCallback("getMemberData", "caller", id, ToStr(id),
                                               path, NoData, "null", timeout))
    /\ UNCHANGED <<manager, events, respQ, watchArmed, tree, starts, ext, losses, changes, conn, paths>>

\* the user calls getMemberPath(id) and gets the path, or undefined
CallGetMemberPath(id) ==
    /\ Len(paths) < MaxPaths
    /\ paths' = Append(paths, [id |-> id, path |-> getMemberPath(id)])
    /\ UNCHANGED <<manager, ops, events, service, starts, ext, losses, changes, conn>>

\* ---------------------------------------------------------- ZKCluster
\* The older class of the repository, over the same client: a cluster whose
\* conf.clusterPath is the group's path, conf.timeout is timeout, and on
\* which startMonitor is not called (this._clusterChildListener is null).
clusterPath == groupPath

\* registerInstance: withTimeout(new Promise(executor, this.timeout).then(...)).
\* this.timeout is an argument of new Promise, which takes none after the
\* executor; withTimeout is called with the promise alone, so the timeout it
\* sees is undefined whatever conf.timeout is.
registerInstanceTimeout(t) == "undefined"

\* getNodes: withTimeout(new Promise(executor), this.timeout)
getNodesTimeout(t) == t

\* throw new Error("Instance id cannot contain '/'"): no promise is returned
InstanceIdThrows(idIn, name, data) ==
    [kind |-> "registerInstance", by |-> "caller", idIn |-> idIn, name |-> name,
     path |-> Undefined, data |-> data, watcher |-> "null", sent |-> FALSE,
     timer |-> "none", inner |-> "unused",
     res |-> [st |-> "thrown", err |-> Err("Instance id cannot contain '/'"),
              members |-> {}, data |-> NoData]]

CallRegisterInstance(id, data) ==
    /\ LET eid == EffectiveId(id)
           name == ToStr(eid)
       IN  IF includes(name, "/")
             THEN Start(InstanceIdThrows(id, name, data))
             ELSE Start(timedPromiseByCallback("registerInstance", "caller", id, name,
                                               join(clusterPath, name), data, "null",
                                               registerInstanceTimeout(timeout)))
    /\ UNCHANGED <<manager, events, respQ, watchArmed, tree, starts, ext, losses, changes, conn, paths>>

CallGetNodes ==
    /\ Start(timedPromiseByCallback("getNodes", "caller", NoId, <<>>, clusterPath,
                                    NoData, "null", getNodesTimeout(timeout)))
    /\ UNCHANGED <<manager, events, respQ, watchArmed, tree, starts, ext, losses, changes, conn, paths>>

\* ------------------------------------------------------------ the service
\* what serving the request of operation o does to tree t: the tree after, the
\* answer, whether the relay becomes a watcher, whether the children changed
Served(t, err, children, buffer, arm, changed) ==
    [tree |-> t, err |-> err, children |-> children, buffer |-> buffer,
     arm |-> arm, changed |-> changed]
Failed(t, kind) == Served(t, Err(kind), {}, NoBuffer, FALSE, FALSE)

\* this._client.mkdirp(this._groupPath, cb): the path is created when it is
\* missing, and 'node exists' is no error (a plain create would fail on it)
createOnly(t, path) ==
    IF Exists(t, path) THEN Failed(t, "NODE_EXISTS")
    ELSE Served(Put(t, path, NoBuffer), NoErr, {}, NoBuffer, FALSE, FALSE)
mkdirp(t, path) ==
    Served(IF Exists(t, path) THEN t ELSE Put(t, path, NoBuffer),
           NoErr, {}, NoBuffer, FALSE, FALSE)

Apply(o, t) ==
    CASE o.kind = "setup" -> mkdirp(t, o.path)
      [] o.kind \in {"getMembers", "getNodes"} ->
           IF Exists(t, o.path)
             THEN Served(t, NoErr, Children(t), NoBuffer, o.watcher = "relay", FALSE)
             ELSE Failed(t, "NO_NODE")
      [] o.kind \in {"registerMember", "registerInstance"} ->
           IF Exists(t, o.path) THEN Failed(t, "NODE_EXISTS")
           ELSE IF ~Exists(t, groupPath) THEN Failed(t, "NO_NODE")
           ELSE Served(Put(t, o.path, Stringify(o.data)), NoErr, {}, NoBuffer,
                       FALSE, TRUE)
      [] OTHER ->
           IF Exists(t, o.path)
             THEN Served(t, NoErr, {}, t[o.path], FALSE, FALSE)
             ELSE Failed(t, "NO_NODE")

Changed == IF listener # "null" THEN changes + 1 ELSE changes

\* the service serves the oldest request of the session, or the connection
\* fails it; a change notifies the watcher before the answer goes out
Serve ==
    /\ reqQ # <<>>
    /\ LET i == Head(reqQ)
       IN  \E lost \in {b \in BOOLEAN : b => losses < MaxLoss} :
             LET r == IF lost THEN Failed(tree, "CONNECTION_LOSS") ELSE Apply(ops[i], tree)
             IN  /\ reqQ' = Tail(reqQ)
                 /\ tree' = r.tree
                 /\ respQ' = Append(Notify(respQ, r.changed /\ watchArmed),
                                    Response(i, r.err, r.children, r.buffer))
                 /\ watchArmed' = IF r.changed THEN FALSE ELSE (watchArmed \/ r.arm)
                 /\ changes' = IF r.changed THEN Changed ELSE changes
                 /\ losses' = IF lost THEN losses + 1 ELSE losses
    /\ UNCHANGED <<manager, ops, events, starts, ext, conn, paths>>

\* a member of another session joins the group
ExtJoin(n) ==
    /\ ext < MaxExt
    /\ Exists(tree, groupPath)
    /\ ~Exists(tree, join(groupPath, n))
    /\ ext' = ext + 1
    /\ tree' = Put(tree, join(groupPath, n), Stringify(ExtData))
    /\ respQ' = Notify(respQ, watchArmed)
    /\ watchArmed' = FALSE
    /\ changes' = Changed
    /\ UNCHANGED <<manager, ops, events, reqQ, starts, losses, conn, paths>>

\* a member leaves the group: its session ended
ExtLeave(n) ==
    /\ ext < MaxExt
    /\ n \in Children(tree)
    /\ ext' = ext + 1
    /\ tree' = Del(tree, join(groupPath, n))
    /\ respQ' = Notify(respQ, watchArmed)
    /\ watchArmed' = FALSE
    /\ changes' = Changed
    /\ UNCHANGED <<manager, ops, events, reqQ, starts, losses, conn, paths>>

\* ------------------------------------------------- callbacks and timers
\* the manager itself, as the value of a promise: .then(() => this)
This == "this"

\* the .then() each operation puts on its timed promise
thenDropsValue(o, r) ==
    IF r.st = "rejected" THEN Rejected(r.err) ELSE Resolved({}, NoData)
thenSwallowsErr(o, r) ==
    IF o.kind = "registerMember" THEN Resolved({}, o.data)
    ELSE IF r.st = "rejected" THEN Rejected(r.err)
    ELSE CASE o.kind = "setup" -> Resolved({}, This)
           [] o.kind \in {"getMembers", "getNodes"} -> Resolved(r.value.children, NoData)
           [] o.kind = "registerInstance" -> Resolved({}, o.data)
           [] OTHER -> Resolved({}, Parse(r.value.buffer))
then(o, r) ==
    IF r.st = "rejected" THEN Rejected(r.err)
    ELSE CASE o.kind = "setup" -> Resolved({}, This)
           [] o.kind \in {"getMembers", "getNodes"} -> Resolved(r.value.children, NoData)
           [] o.kind \in {"registerMember", "registerInstance"} -> Resolved({}, o.data)
           [] OTHER -> Resolved({}, Parse(r.value.buffer))

MembersEvent(i, r) == [type |-> "members", op |-> i, members |-> r.members, err |-> NoErr]
ErrorEvent(i, r) == [type |-> "error", op |-> i, members |-> {}, err |-> r.err]

\* the relay's reactions: nodeList => emit('members', nodeList),
\* err => emit('error', err)
relayEmitsMembersOnly(i, r) == MembersEvent(i, r)
relayEvent(i, r) == IF r.st = "resolved" THEN MembersEvent(i, r) ELSE ErrorEvent(i, r)

\* ZKCluster.getNodes: res.then(nodeList => this.emit('node-list', nodeList),
\* err => this.emit('error', err))
nodesEvent(i, r) ==
    IF r.st = "resolved"
      THEN [type |-> "node-list", op |-> i, members |-> r.members, err |-> NoErr]
      ELSE ErrorEvent(i, r)

\* operation i's promise takes outcome r; a relay's fetch, and every getNodes
\* of a ZKCluster, reports it
Settle(i, r, inner, timer) ==
    LET o == ops[i]
        new == race(o.res, r)
    IN  /\ ops' = [ops EXCEPT ![i].res = new, ![i].inner = inner, ![i].timer = timer]
        /\ events' = CASE new = o.res -> events
                        [] o.kind = "getNodes" -> Append(events, nodesEvent(i, new))
                        [] o.by # "caller" -> Append(events, relayEvent(i, new))
                        [] OTHER -> events

\* delay(timeout): timers of one delay fire in the order they were started.
\* A timer that fires after its race is settled changes nothing (race drops
\* it), so only the timers of pending operations are followed.
SameDelay(i, j) == (ops[i].kind = "setup") <=> (ops[j].kind = "setup")
Running(i) == ops[i].timer = "armed" /\ ops[i].res.st = "pending"
timerAnyOrder(i) == Running(i)
timerDue(i) ==
    /\ Running(i)
    /\ \A j \in 1..(i - 1) : SameDelay(i, j) => ~Running(j)

\* the timer of operation i fires: reject(new Error('Timeout'))
TimerFire(i) ==
    /\ timerDue(i)
    /\ Settle(i, Rejected(TimeoutErr), ops[i].inner, "fired")
    /\ UNCHANGED <<manager, service, starts, ext, losses, changes, conn, paths>>

\* the client calls back with the answer of operation m.op
Callback(m) ==
    LET o == ops[m.op]
        r == resolverAsCallback(m.err, Value(m.children, m.buffer))
    IN  /\ Settle(m.op, then(o, r), r.st, o.timer)
        /\ reqQ' = reqQ

\* the client notifies the watcher: the relay runs
RelayRunSkipsFetch == UNCHANGED <<ops, reqQ, events>>
RelayRun ==
    /\ Start(getMembers("watch", listener))
    /\ events' = events

Deliver ==
    /\ respQ # <<>>
    /\ respQ' = Tail(respQ)
    /\ IF Head(respQ).t = "watch" THEN RelayRun ELSE Callback(Head(respQ))
    /\ UNCHANGED <<manager, watchArmed, tree, starts, ext, losses, changes, conn, paths>>

\* ------------------------------------------- the connection's state
\* the names of the states the client reports
StateNames == {"SYNC_CONNECTED", "DISCONNECTED", "EXPIRED"}
NoState == [n |-> 0, name |-> "none"]

\* if (state.name !== 'SYNC_CONNECTED')
disconnectedAny(name) == TRUE
disconnected(name) == name # "SYNC_CONNECTED"

\* this.emit('error', new Error('Disconnected'))
DisconnectedEvent ==
    [type |-> "error", op |-> 0, members |-> {}, err |-> Err("Disconnected")]

Repeat(e, n) == [k \in 1..n |-> e]

\* the client emits 'state': every listener startMonitor registered runs
StateNotify(name) ==
    /\ conn.n < MaxNotes
    /\ conn' = [n |-> conn.n + 1, name |-> name]
    /\ events' = events \o Repeat(DisconnectedEvent,
                                  IF disconnected(name) THEN stateListeners ELSE 0)
    /\ UNCHANGED <<manager, ops, service, starts, ext, losses, changes, paths>>

\* ---------------------------------------------------- the specification
Timeouts == {"undefined", "ms"}

\* the manager, the session and the tree after new ZKGroupMembership(...)
Constructed ==
    /\ listener = "null"
    /\ stateListeners = 0
    /\ ops = <<>>
    /\ events = <<>>
    /\ reqQ = <<>>
    /\ respQ = <<>>
    /\ watchArmed = FALSE
    /\ tree \in {EmptyTree, Put(EmptyTree, groupPath, NoBuffer)}
    /\ starts = 0
    /\ ext = 0
    /\ losses = 0
    /\ changes = 0
    /\ conn = NoState
    /\ paths = <<>>

Init ==
    /\ timeout \in Timeouts
    /\ setupTimeout \in Timeouts \ {timeout}
    /\ Constructed

\* what the user of the manager may call
UserCall ==
    \/ CallSetup
    \/ CallGetMembers
    \/ \E id \in Ids, d \in Datas : CallRegisterMember(id, d)
    \/ \E id \in Ids : CallGetMemberData(id)

\* the service, the other sessions, the timers and the client's callbacks
Env ==
    \/ Serve
    \/ \E n \in ExtNames : ExtJoin(n)
    \/ \E n \in ExtNames : ExtLeave(n)
    \/ \E i \in OpIds : TimerFire(i)
    \/ Deliver

Next ==
    \/ Calls < MaxCalls /\ UserCall
    \/ CallStartMonitor
    \/ Env

Spec == Init /\ [][Next]_vars

\* the operations alone: the user never starts monitoring
OpsNext ==
    \/ Calls < MaxCalls /\ UserCall
    \/ Env

OpsSpec == Init /\ [][OpsNext]_vars

\* a monitored group: the user starts monitoring and reads the members, the
\* group changes under other sessions
MonitorNext ==
    \/ Calls < MaxReads /\ CallGetMembers
    \/ CallStartMonitor
    \/ Env

MonitorSpec == Init /\ [][MonitorNext]_vars

\* a monitored group whose client reports its connection state
ConnNext ==
    \/ CallStartMonitor
    \/ \E name \in StateNames : StateNotify(name)
    \/ Env

ConnSpec == Init /\ [][ConnNext]_vars

\* getMemberPath on its own, on a manager that may be monitoring
PathNext ==
    \/ \E id \in PathIds : CallGetMemberPath(id)
    \/ CallStartMonitor

PathSpec == Init /\ [][PathNext]_vars

\* a ZKCluster: instances are registered and the nodes are listed
ClusterCall ==
    \/ \E id \in Ids, d \in Datas : CallRegisterInstance(id, d)
    \/ CallGetNodes

ClusterNext ==
    \/ Calls < MaxCalls /\ ClusterCall
    \/ Env

ClusterSpec == Init /\ [][ClusterNext]_vars

\* the operations of a manager whose conf.timeout is 0
ZeroInit ==
    /\ timeout = "zero"
    /\ setupTimeout = "undefined"
    /\ Constructed

ZeroSpec == ZeroInit /\ [][OpsNext]_vars

\* every operation of the manager on a group that only the manager changes:
\* the user calls the operations, getMemberPath once, and starts monitoring
FrameNext ==
    \/ Calls < MaxReads /\ UserCall
    \/ paths = <<>> /\ \E id \in Ids \ {UndefId} : CallGetMemberPath(id)
    \/ CallStartMonitor
    \/ Serve
    \/ \E i \in OpIds : TimerFire(i)
    \/ Deliver

FrameSpec == Init /\ [][FrameNext]_vars

\* ------------------------------------------------------------ vocabulary
Last(q) == q[Len(q)]
IsRelay(o) == o.by # "caller"
RelayOps == {i \in OpIds : IsRelay(ops[i])}
EventsOf(i) == {k \in 1..Len(events) : events[k].op = i}
MembersEvents == {k \in 1..Len(events) : events[k].type = "members"}
TimedOut(o) == o.res.st = "rejected" /\ o.res.err = TimeoutErr
\* nothing is in flight: every request was answered and every answer delivered
Quiet == reqQ = <<>> /\ respQ = <<>>
\* the step delivers the client's answer m to its operation
Answers(m) == respQ # <<>> /\ Head(respQ) = m /\ m.t = "resp" /\ respQ' = Tail(respQ)

\* what a step may do to the promise of operation i
C1_Step(i) ==
    LET o == ops[i]
        n == ops'[i]
    IN  /\ o.res.st # "pending" =>
             /\ n.res = o.res
             /\ \A k \in 1..Len(events') : events'[k].op = i => k <= Len(events)
        /\ o.res.st = "pending" /\ n.res.st # "pending" =>
             \/ /\ Answers(Head(respQ)) /\ Head(respQ).op = i
                /\ n.timer = "armed"
                /\ n.res.err = Head(respQ).err
                /\ n.res.st = (IF Head(respQ).err = NoErr THEN "resolved" ELSE "rejected")
                /\ o.kind = "getMembers" => n.res.members = Head(respQ).children
             \/ /\ respQ' = respQ
                /\ n.timer = "fired" /\ o.timer = "armed"
                /\ n.res = Rejected(TimeoutErr)

\* C1: an operation with a deadline is settled exactly once: a settled result
\* never changes again (a late client callback is dropped and reaches nobody),
\* and a pending one becomes the client call's own outcome when the client
\* calls back, or a Timeout rejection when the timer fires first.
C1_SettledOnce == [][\A i \in OpIds : ops[i].timer # "none" => C1_Step(i)]_vars

\* C1 happens: an operation timed out and the client's answer came late
C1_Witness ==
    \E i \in OpIds : TimedOut(ops[i]) /\ ops[i].inner = "resolved"
                     /\ ops[i].kind = "registerMember"

\* C2: however often startMonitor is called, the relay is installed once, one
\* initial fetch is issued and one connection-state listener is registered;
\* with N changes of the children since, at most N+1 'members' events exist.
C2_OneRelay ==
    /\ Count({i \in OpIds : ops[i].by = "start"}) = (IF starts = 0 THEN 0 ELSE 1)
    /\ stateListeners = (IF starts = 0 THEN 0 ELSE 1)
    /\ listener = (IF starts = 0 THEN "null" ELSE "relay")
    /\ Count(RelayOps) <= changes + 1
    /\ Count(MembersEvents) <= changes + 1

\* C2 happens: startMonitor was called twice, then the children changed, and
\* the initial event and the event of the change were emitted
C2_Witness == starts = 2 /\ changes >= 1 /\ Count(MembersEvents) = changes + 1

\* The case of C3: monitoring is on, its initial event was 'members' with a
\* set S, and the children changed once since, to a set other than S (so the
\* change came after the listing that read S).
C3_Case ==
    /\ events # <<>>
    /\ events[1].type = "members"
    /\ ops[events[1].op].by = "start"
    /\ changes = 1
    /\ events[1].members # Children(tree)

\* C3 as stated: in that case, once nothing is in flight (and the connection
\* failed no request), exactly one further event has been emitted, and it is
\* 'members' with the new children set.
C3_Original ==
    C3_Case /\ Quiet /\ losses = 0 =>
        /\ Len(events) = 2
        /\ events[2].type = "members"
        /\ events[2].members = Children(tree)

\* C3: in that case at most one further event is emitted, and exactly one once
\* nothing is in flight: 'members' with the new children set when the fetch
\* of the relay resolves, 'error' with the failure when it rejects.
C3_OneEventPerChange ==
    C3_Case =>
        /\ Len(events) <= 2
        /\ Quiet => Len(events) = 2
        /\ Len(events) = 2 =>
             LET e == events[2]
                 r == ops[e.op].res
             IN  /\ ops[e.op].by = "watch"
                 /\ r.st = "resolved" =>
                      e.type = "members" /\ e.members = Children(tree)
                 /\ r.st = "rejected" => e.type = "error" /\ e.err = r.err
                 /\ r.st # "pending"

\* C3 happens: the change was followed by its one 'members' event
C3_Witness ==
    C3_Case /\ Quiet /\ Len(events) = 2 /\ events[2].type = "members"
    /\ events[2].members = {<<"a">>}

\* The case of C4: monitoring is on, the group path exists, and nothing is in
\* flight
C4_Case == listener = "relay" /\ Exists(tree, groupPath) /\ Quiet

C4_LastRelay == CHOOSE i \in RelayOps : \A j \in RelayOps : j <= i

C5_Step ==
    /\ \A i \in 1..Len(ops') :
         IsRelay(ops'[i]) =>
             /\ ops'[i].kind = "getMembers"
             /\ ops'[i].watcher = "relay"
             /\ ops'[i].sent
             /\ i > Len(ops) => Last(reqQ') = i
    /\ Len(ops') > Len(ops) /\ respQ # <<>> /\ respQ' = Tail(respQ)
          => Head(respQ).t = "watch" /\ IsRelay(Last(ops'))
    /\ reqQ # <<>> /\ reqQ' = Tail(reqQ) /\ IsRelay(ops[Head(reqQ)])
          /\ Last(respQ').err = NoErr
          => watchArmed'

\* C5: every run of the relay (the one of startMonitor, and one per watch
\* notification) lists the children with the relay itself as the watcher,
\* and when the service accepts such a listing the watch is armed.
C5_RelayRearms == [][C5_Step]_vars

\* C5 happens: the watch fired, the relay ran again and its listing was
\* accepted, so a watch is armed for the next change
C5_Witness ==
    \E i \in OpIds : ops[i].by = "watch" /\ ops[i].inner = "resolved" /\ watchArmed

\* C6: the events of the relay are emitted in the order of its runs: when a
\* later run has emitted its event, every earlier run has emitted its own,
\* and before it.
C6_InOrder ==
    /\ \A k1, k2 \in 1..Len(events) : k1 < k2 => events[k1].op < events[k2].op
    /\ \A i, j \in RelayOps : i < j /\ EventsOf(j) # {} => EventsOf(i) # {}

\* C6 happens: two fetches of the relay were in flight together (the client
\* has answered neither) and each has emitted its event
C6_Witness ==
    \E i, j \in RelayOps :
        /\ i < j
        /\ ops[i].inner = "pending" /\ ops[j].inner = "pending"
        /\ EventsOf(i) # {} /\ EventsOf(j) # {}

\* C7: a run of the relay emits at most one event, and exactly one once its
\* fetch has settled: 'members' with the listed children when it resolved,
\* 'error' with the failure when it rejected; a fetch that timed out emits
\* no 'members' event when the client answers late; nothing else emits.
C7_OneEventPerRun ==
    /\ \A k \in 1..Len(events) : events[k].op \in RelayOps
    /\ \A i \in RelayOps :
         LET r == ops[i].res
         IN  /\ Count(EventsOf(i)) = (IF r.st = "pending" THEN 0 ELSE 1)
             /\ \A k \in EventsOf(i) :
                  /\ r.st = "resolved" =>
                       /\ events[k].type = "members"
                       /\ events[k].members = r.members
                  /\ r.st = "rejected" =>
                       /\ events[k].type = "error"
                       /\ events[k].err = r.err
                  /\ r.st = "resolved" => ops[i].inner = "resolved"

\* C7 happens: a fetch of the relay timed out, emitted 'error', and the
\* client's listing came late
C7_Witness ==
    \E i \in RelayOps :
        /\ TimedOut(ops[i]) /\ ops[i].inner = "resolved"
        /\ \E k \in EventsOf(i) : events[k].type = "error" /\ events[k].err = TimeoutErr

\* an id whose string form holds '/'
HasSlash(o) ==
    /\ o.kind \in {"registerMember", "getMemberData"}
    /\ o.idIn # UndefId
    /\ \E k \in 1..Len(o.name) : o.name[k] = "/"

\* what a step does with the operations whose id holds '/'
C8_Step ==
    /\ \A i \in 1..Len(ops') :
         HasSlash(ops'[i]) =>
             /\ ops'[i].res = Rejected(IllegalIdErr)
             /\ ~ops'[i].sent
             /\ ops'[i].timer = "none"
             /\ \A k \in 1..Len(reqQ') : reqQ'[k] # i
             /\ \A k \in 1..Len(respQ') : respQ'[k].op # i
             /\ i > Len(ops) =>
                  UNCHANGED <<manager, service, events, changes>>
    /\ \A i \in 1..Len(ops') :
         ops'[i].res.err = IllegalIdErr => HasSlash(ops'[i])

OwnKind(kind) ==
    CASE kind = "setup" -> "SetupFailed"
      [] kind = "getMembers" -> "MembersUnavailable"
      [] kind = "registerMember" -> "RegistrationFailed"
      [] OTHER -> "MemberDataUnavailable"

\* C9 as stated: a rejection that is neither Timeout nor IllegalMemberId has
\* the kind of its operation and wraps the client's error.
C9_Original ==
    \A i \in OpIds :
        LET r == ops[i].res
        IN  r.st = "rejected" /\ r.err # TimeoutErr /\ r.err # IllegalIdErr =>
                /\ r.err.kind = OwnKind(ops[i].kind)
                /\ r.err.cause \in ClientErrKinds

\* the rejections a step leaves, and what a failed client call comes to
C9_Step ==
    /\ \A i \in 1..Len(ops') :
         LET r == ops'[i].res
         IN  r.st = "rejected" =>
                \/ r.err = TimeoutErr
                \/ r.err = IllegalIdErr
                \/ r.err.kind \in ClientErrKinds /\ r.err.cause = "none"
    /\ \A i \in OpIds :
         /\ Answers(Head(respQ)) /\ Head(respQ).op = i
         /\ Head(respQ).err # NoErr
         /\ ops[i].res.st = "pending"
         => ops'[i].res = Rejected(Head(respQ).err)

\* C9: when the client call fails with e before the deadline, the operation
\* rejects with e itself, not wrapped; the only other rejections are Timeout
\* and 'Illegal member ID'.
C9_ClientErrorAsIs == [][C9_Step]_vars

\* C9 happens: operations of the four kinds were failed by the client
C9_Failed(kind) ==
    \E i \in OpIds : /\ ops[i].kind = kind
                     /\ ops[i].res.st = "rejected"
                     /\ ops[i].res.err.kind \in ClientErrKinds
C9_Witness ==
    \/ C9_Failed("setup") /\ C9_Failed("getMembers")
    \/ C9_Failed("registerMember") /\ C9_Failed("getMemberData")

\* the step serves the create of operation i while its path is in the tree
ServesExisting(i) ==
    /\ reqQ # <<>> /\ Head(reqQ) = i /\ reqQ' = Tail(reqQ)
    /\ ops[i].kind = "registerMember"
    /\ Exists(tree, ops[i].path)
    /\ Last(respQ').err.kind # "CONNECTION_LOSS"

\* C10 as stated: registerMember with an id that is a child of the group path
\* fails with RegistrationFailed and leaves the stored payload as it was.
C10_Original ==
    [][\A i \in OpIds :
         /\ (ServesExisting(i) => tree' = tree)
         /\ (/\ ops[i].kind = "registerMember"
             /\ Answers(Head(respQ)) /\ Head(respQ).op = i
             /\ Head(respQ).err.kind = "NODE_EXISTS"
             /\ ops[i].res.st = "pending"
             => ops'[i].res.err.kind = "RegistrationFailed")]_vars

\* what serving and answering the create of an existing member does
C10_Step(i) ==
    /\ ServesExisting(i) =>
         /\ tree' = tree
         /\ Last(respQ').err = Err("NODE_EXISTS")
    /\ (/\ ops[i].kind = "registerMember"
        /\ Answers(Head(respQ)) /\ Head(respQ).op = i
        /\ Head(respQ).err.kind = "NODE_EXISTS")
       => /\ ops'[i].res.st = "rejected"
          /\ ops'[i].res.err \in {Err("NODE_EXISTS"), TimeoutErr}
          /\ ops[i].res.st = "pending" => ops'[i].res.err = Err("NODE_EXISTS")

\* C10: a registerMember whose create is served while its id is a child of the
\* group path is answered NODE_EXISTS and leaves the tree as it was; the
\* operation rejects with that error (or has timed out before), never resolves.
C10_ExistingMemberKept == [][\A i \in OpIds : C10_Step(i)]_vars

\* C10 happens: 'a' was registered by another session, registerMember('a')
\* was rejected with NODE_EXISTS and the payload of 'a' is still the other's
C10_Witness ==
    \E i \in OpIds :
        /\ ops[i].kind = "registerMember"
        /\ ops[i].res = Rejected(Err("NODE_EXISTS"))
        /\ Exists(tree, ops[i].path)
        /\ tree[ops[i].path] = Stringify(ExtData)
        /\ tree[ops[i].path] # Stringify(ops[i].data)

\* the 'error' events of kind Disconnected
Disconnects(evs) == {k \in 1..Len(evs) : evs[k].err.kind = "Disconnected"}

\* what a step does about the connection's state
C11_Step ==
    /\ conn' # conn /\ starts >= 1 /\ conn'.name # "SYNC_CONNECTED"
          => /\ Len(events') = Len(events) + 1
             /\ SubSeq(events', 1, Len(events)) = events
             /\ Last(events').type = "error"
             /\ Last(events').err.kind = "Disconnected"
    /\ conn' # conn /\ (starts = 0 \/ conn'.name = "SYNC_CONNECTED")
          => events' = events
    /\ conn' = conn => Disconnects(events') = Disconnects(events)

\* C11: once startMonitor has been called (once or more), a state
\* notification other than SYNC_CONNECTED emits exactly one 'error' event
\* of kind Disconnected; a SYNC_CONNECTED notification emits nothing, and
\* no notification emits anything before the first startMonitor.
C11_DisconnectedOnce == [][C11_Step]_vars

\* C11 happens: startMonitor was called twice, the client reported a state
\* before it and EXPIRED after it, and one Disconnected event exists
C11_Witness ==
    /\ starts = 2 /\ conn.n = 2 /\ conn.name = "EXPIRED"
    /\ Count(Disconnects(events)) = 1
    /\ Last(events) = DisconnectedEvent

\* the step serves the request of operation i, and the connection holds
Serves(i) ==
    /\ reqQ # <<>> /\ Head(reqQ) = i /\ reqQ' = Tail(reqQ)
    /\ Last(respQ').err.kind # "CONNECTION_LOSS"

\* what serving and answering a setup does
C12_Step(i) ==
    /\ Serves(i) =>
         /\ Last(respQ').err = NoErr
         /\ Exists(tree', groupPath)
         /\ Exists(tree, groupPath) => tree' = tree
         /\ DOMAIN tree' = DOMAIN tree \cup {groupPath}
         /\ \A p \in DOMAIN tree : tree'[p] = tree[p]
    /\ (/\ Answers(Head(respQ)) /\ Head(respQ).op = i
        /\ Head(respQ).err = NoErr /\ ops[i].res.st = "pending")
       => ops'[i].res = Resolved({}, This)
    /\ ops'[i].res.st = "rejected"
       => ops'[i].res.err \in {TimeoutErr, Err("CONNECTION_LOSS")}

\* C12: setup may be called again and again, also with calls in flight
\* together: the service answers each without error, existing node or not,
\* a setup of an existing group path leaves the tree as it is, and each
\* answered call resolves with the manager itself.
C12_SetupIdempotent ==
    [][\A i \in OpIds : ops[i].kind = "setup" => C12_Step(i)]_vars

\* C12 happens: setup was called twice and both calls resolved with the
\* manager, the second one served on the existing group path
C12_Witness ==
    /\ Len(ops) = 2
    /\ \A i \in OpIds : ops[i].kind = "setup" /\ ops[i].res = Resolved({}, This)
    /\ DOMAIN tree = {groupPath}

\* the deadline configured for operation o
Deadline(o) == IF o.kind = "setup" THEN setupTimeout ELSE timeout

\* what a step may do to operation i when its deadline is undefined
C13_Step(i) ==
    LET n == ops'[i]
        m == Head(respQ)
        answered == i <= Len(ops) /\ Answers(m) /\ m.op = i
    IN  /\ n.timer = "none"
        /\ n.res.err # TimeoutErr
        /\ i > Len(ops) => n.res.st = "pending"
        /\ i <= Len(ops) /\ ~answered => n.res = ops[i].res
        /\ i <= Len(ops) /\ ops[i].res.st # "pending" => n.res = ops[i].res
        /\ answered /\ ops[i].res.st = "pending" =>
              /\ n.res.st = (IF m.err = NoErr THEN "resolved" ELSE "rejected")
              /\ n.res.err = m.err
              /\ n.kind = "getMembers" => n.res.members = m.children
              /\ n.kind = "getMemberData" /\ m.err = NoErr
                    => Stringify(n.res.data) = m.buffer

\* C13: an operation whose deadline is undefined has no timer and never
\* rejects with Timeout: it stays pending until the client calls back, and
\* then takes the outcome of the client call.
C13_NoDeadlineNoTimer ==
    [][\A i \in 1..Len(ops') :
          ops'[i].sent /\ Deadline(ops'[i]) = "undefined" => C13_Step(i)]_vars

\* C13 happens: with no deadline, a listing resolved with the children the
\* client gave and a getMemberData was failed by the client
C13_Witness ==
    /\ timeout = "undefined"
    /\ \E i \in OpIds : ops[i].kind = "getMembers" /\ ops[i].res = Resolved({<<"a">>}, NoData)
    /\ \E i \in OpIds : ops[i].kind = "getMemberData" /\ ops[i].res = Rejected(Err("NO_NODE"))

\* the decimal digits, and the number a string of digits denotes
Decimals == <<"0", "1", "2", "3", "4", "5", "6", "7", "8", "9">>
IsDecimal(c) == \E d \in 1..10 : Decimals[d] = c
DecimalOf(c) == (CHOOSE d \in 1..10 : Decimals[d] = c) - 1
Denotes(s, n) ==
    /\ Len(s) \in {1, 2}
    /\ \A k \in 1..Len(s) : IsDecimal(s[k])
    /\ Len(s) = 2 => s[1] # "0"
    /\ n = (IF Len(s) = 1 THEN DecimalOf(s[1])
                          ELSE 10 * DecimalOf(s[1]) + DecimalOf(s[2]))

\* s is the string form of id
StringForm(id, s) ==
    CASE id.t = "string" -> s = id.s
      [] id.t = "number" -> Denotes(s, id.n)
      [] OTHER -> s = <<"u", "n", "d", "e", "f", "i", "n", "e", "d">>

\* the result p of getMemberPath(id) is as documented
C14_Result(id, p) ==
    LET g == Len(groupPath)
        rest == SubSeq(p, g + 2, Len(p))
    IN  IF p = Undefined
          THEN id.t = "string" /\ \E k \in 1..Len(id.s) : id.s[k] = "/"
          ELSE /\ Len(p) >= g + 1
               /\ SubSeq(p, 1, g) = groupPath
               /\ p[g + 1] = "/"
               /\ StringForm(id, rest)
               /\ \A k \in 1..Len(rest) : rest[k] # "/"

\* what a call of getMemberPath does
C14_Step ==
    paths' # paths =>
        /\ Len(paths') = Len(paths) + 1
        /\ SubSeq(paths', 1, Len(paths)) = paths
        /\ C14_Result(Last(paths').id, Last(paths').path)
        /\ \A k \in 1..Len(paths) :
              paths[k].id = Last(paths').id => paths[k].path = Last(paths').path
        /\ UNCHANGED <<manager, ops, events, service>>

\* C14: getMemberPath(id) gives undefined when the string form of id holds
\* '/', and the group path, '/' and the string form of id otherwise; the
\* same id gives the same result, monitoring or not, and the call changes
\* nothing of the manager or the session.
C14_MemberPath == [][C14_Step]_vars

\* C14 happens: getMemberPath gave undefined for 'a/' and the path of 12
C14_Witness ==
    /\ \E k \in 1..Len(paths) :
          paths[k].id = StrId(<<"a", "/">>) /\ paths[k].path = Undefined
    /\ \E k \in 1..Len(paths) :
          paths[k].id = NumId(12) /\ paths[k].path = <<"/", "g", "/", "1", "2">>

\* C15: conf.timeout bounds registerInstance as it bounds getNodes: timers of
\* one delay fire in the order they were started, so once the timer of a
\* getNodes called after a registerInstance has fired, the deadline of the
\* registerInstance has passed too, and it has settled: with Timeout when
\* the client has not called back.
C15_Original ==
    \A i, j \in OpIds :
        /\ i < j
        /\ ops[i].kind = "registerInstance" /\ ops[i].sent
        /\ ops[j].kind = "getNodes" /\ ops[j].timer = "fired"
        => /\ ops[i].res.st # "pending"
           /\ ops[i].inner = "pending" => ops[i].res = Rejected(TimeoutErr)

\* the operations that went to the client under a deadline of zero
ZeroOps == {i \in OpIds : ops[i].sent /\ Deadline(ops[i]) = "zero"}

\* C16 as stated: with a deadline of zero an operation never takes the
\* outcome of a client call that was answered after the call returned (the
\* client of the model never calls back inside the call): settled, it is
\* rejected with Timeout.
C16_Original ==
    \A i \in ZeroOps : ops[i].res.st # "pending" => ops[i].res = Rejected(TimeoutErr)

\* C16: with a deadline of zero a timer is started all the same; the
\* operation is rejected with Timeout exactly when that timer fired before
\* the client's callback ran, it is settled once the timer has fired, and
\* any other result is the outcome of a callback that ran before the timer.
C16_ZeroDeadline ==
    \A i \in ZeroOps :
        LET o == ops[i]
        IN  /\ o.timer # "none"
            /\ o.timer = "fired" <=> o.res = Rejected(TimeoutErr)
            /\ o.res.st # "pending" /\ o.res # Rejected(TimeoutErr) =>
                  /\ o.inner = o.res.st
                  /\ o.timer = "armed"

\* C16 happens: under a deadline of zero one operation took the client's
\* outcome and another timed out before the client answered
C16_Witness ==
    /\ \E i \in ZeroOps : ops[i].res.st = "resolved"
    /\ \E i \in ZeroOps : TimedOut(ops[i]) /\ ops[i].inner = "pending"

\* the registrations that were rejected with Timeout
LateCreates == {i \in OpIds : ops[i].kind = "registerMember" /\ TimedOut(ops[i])}

\* C17 as stated: once registerMember has been rejected with Timeout, the
\* create it sent adds no child to the group when the service comes to it.
C17_Original ==
    [][\A i \in LateCreates : Serves(i) => Children(tree') = Children(tree)]_vars

\* what the late completion of a timed-out registration does
C17_Step(i) ==
    LET o == ops[i]
    IN  /\ ops'[i].res = o.res
        /\ Answers(Head(respQ)) /\ Head(respQ).op = i =>
              /\ events' = events
              /\ ops' = [ops EXCEPT ![i].inner =
                            IF Head(respQ).err = NoErr THEN "resolved" ELSE "rejected"]
              /\ UNCHANGED <<manager, reqQ, watchArmed, tree>>
        /\ Serves(i) /\ Exists(tree, groupPath) /\ ~Exists(tree, o.path) =>
              /\ tree' = Put(tree, o.path, <<"{", o.data, "}">>)
              /\ o.name \in Children(tree')
              /\ Last(respQ').err = NoErr

\* C17: after registerMember was rejected with Timeout, the client's late
\* answer changes neither the result nor anything of the manager and emits
\* nothing; but the create itself is still served, and when it succeeds the
\* member is a child of the group from then on.
C17_LateResultDropped == [][\A i \in LateCreates : C17_Step(i)]_vars

\* C17 happens: a registration was rejected with Timeout, its create
\* succeeded all the same, and a getMembers called afterwards lists the member
C17_Witness ==
    \E i \in LateCreates :
        /\ ops[i].inner = "resolved"
        /\ \E j \in OpIds : /\ j > i /\ ops[j].kind = "getMembers"
                             /\ ops[j].res.st = "resolved"
                             /\ ops[i].name \in ops[j].res.members

\* the getMembers calls of the user, after the step
Reads == {i \in 1..Len(ops') : ops'[i].kind = "getMembers" /\ ops'[i].by = "caller"}

\* what a step does to the getMembers call i
C18_Step(i) ==
    LET n == ops'[i]
        m == Head(respQ)
    IN  /\ n.timer = "none" <=> timeout = "undefined"
        /\ i <= Len(ops) /\ n # ops[i] =>
              /\ \A j \in OpIds \ {i} : ops'[j] = ops[j]
              /\ Len(ops') = Len(ops)
              /\ events' = events
        /\ i <= Len(ops) /\ Serves(i) =>
              /\ tree' = tree
              /\ Last(respQ').op = i
              /\ Exists(tree, groupPath) =>
                    Last(respQ').err = NoErr /\ Last(respQ').children = Children(tree)
        /\ i <= Len(ops) /\ n.res # ops[i].res =>
              /\ ops[i].res.st = "pending"
              /\ \/ /\ Answers(m) /\ m.op = i
                    /\ n.res = (IF m.err = NoErr THEN Resolved(m.children, NoData)
                                                 ELSE Rejected(m.err))
                 \/ /\ respQ' = respQ
                    /\ ops[i].timer = "armed" /\ n.timer = "fired"
                    /\ n.res = Rejected(TimeoutErr)

\* C18: getMembers calls in flight together are independent: each has the
\* timer its deadline asks for and is settled by its own answer or its own
\* timer only; settling one changes no other operation; the listing of each is
\* answered with the children at the moment it is served, and that answer is
\* the value the call resolves with.
C18_ReadsIndependent == [][\A i \in Reads : C18_Step(i)]_vars

\* C18 happens: two getMembers calls were in flight together and served at
\* different moments with different children; the first has timed out while
\* the second is pending, the answers of both still on their way
C18_Witness ==
    /\ Len(ops) = 2 /\ Len(respQ) = 2
    /\ \A i \in OpIds : ops[i].kind = "getMembers" /\ ops[i].by = "caller"
    /\ respQ[1].op = 1 /\ respQ[2].op = 2
    /\ respQ[1].children # respQ[2].children
    /\ TimedOut(ops[1]) /\ ops[2].res.st = "pending"

\* what a step may do to the fields of the manager
C19_Step ==
    /\ config' = config
    /\ listener' # listener =>
          listener = "null" /\ listener' = "relay" /\ starts = 0 /\ starts' = 1
    /\ stateListeners' # stateListeners => starts = 0 /\ starts' = 1
    /\ starts = 0 /\ starts' = 1 => listener' = "relay"
    /\ starts >= 1 /\ starts' # starts => UNCHANGED <<manager, ops, events, service>>
    /\ \A i \in 1..Len(ops') :
          ops'[i].sent => SubSeq(ops'[i].path, 1, Len(groupPath)) = <<"/", "g">>

\* C19: this._membersChangedListener changes once, from null to the relay,
\* inside the first startMonitor; no other step (an operation of the user,
\* getMemberPath, a later startMonitor, a run of the relay, an answer, a
\* failure or a timeout of a fetch) changes it, nor the timeouts, nor the
\* group path the requests are made on.
C19_ListenerSetOnce == [][C19_Step]_vars

\* C19 happens: startMonitor was called twice, the user ran an operation and
\* getMemberPath, a fetch of the relay run by the watch failed or timed out,
\* and the relay is still installed
C19_Witness ==
    /\ starts = 2 /\ listener = "relay" /\ paths # <<>>
    /\ \E i \in OpIds : ops[i].by = "caller" /\ ops[i].res.st # "pending"
    /\ \E i \in OpIds : ops[i].by = "watch" /\ ops[i].res.st = "rejected"

\* the getMembers calls of the user, and the first run of the relay
CallerReads == {i \in OpIds : ops[i].kind = "getMembers" /\ ops[i].by = "caller"}
FirstRun == {i \in OpIds : ops[i].by = "start"}

\* C20: a getMembers call of the user emits nothing, whatever it comes to.
\* Called before startMonitor it hands no watcher to the client, and until
\* startMonitor no watch is armed and no event exists. Called while
\* monitoring it hands over the relay, which the client holds once: the relay
\* still runs at most once per change of the children, and at most one
\* 'members' event per change, and the initial one, are emitted.
C20_PureRead ==
    /\ \A i \in CallerReads :
          /\ EventsOf(i) = {}
          /\ \A j \in FirstRun : ops[i].watcher = (IF i < j THEN "null" ELSE "relay")
          /\ FirstRun = {} => ops[i].watcher = "null"
    /\ starts = 0 => events = <<>> /\ ~watchArmed /\ ~\E k \in 1..Len(respQ) : respQ[k].t = "watch"
    /\ Count({i \in OpIds : ops[i].by = "watch"}) <= changes
    /\ Count(MembersEvents) <= changes + 1

\* C20 happens: while monitoring, the user's getMembers resolved with the
\* relay as its watcher, the children changed afterwards, and the change
\* gave one 'members' event, after the initial one
C20_Witness ==
    /\ \E i \in CallerReads :
          /\ ops[i].watcher = "relay" /\ ops[i].res.st = "resolved"
          /\ ops[i].res.members # Children(tree)
    /\ changes = 1 /\ Count(MembersEvents) = 2 /\ Quiet
    /\ Last(events).members = Children(tree)

====
